---------------------------- MODULE Spec2Model ----------------------------
(***************************************************************************)
(* Telegram verification / access-code bot (src/unnamed/part_000, lines    *)
(* 586-944, the latest variant of the bot; src/index.js lines 1-142 holds  *)
(* the same start and contact handlers).                                   *)
(*                                                                         *)
(* State: the three Firestore collections the bot reads and writes, the    *)
(* in-memory Map addCodeSessions, the process (its environment and how far *)
(* startup has come) and the handlers the router has dispatched.           *)
(* A handler is a record with a program counter: an event is               *)
(* dispatched (the handler runs synchronously up to its first await), and  *)
(* every await is one further step (the awaited store or Telegram call     *)
(* succeeds or rejects).                                                   *)
(*                                                                         *)
(* The fields timestamp / created_at hold FieldValue.serverTimestamp();    *)
(* they are written together with the other fields of a document and are   *)
(* left out of the document records here.                                  *)
(***************************************************************************)
EXTENDS Integers, Sequences, FiniteSets, TLC

VARIABLES
  pending_verifications,  \* collection: doc key (string) -> [session_id]
  otp_sessions,           \* collection: doc key (session id) -> OtpSession
  access_codes,           \* collection: sequence of documents (index = auto id)
  addCodeSessions,        \* Map: user id -> session object
  hs,                     \* handler slots: slot -> handler record
  prev,                   \* history: summary of the event handled before the latest
  dialog,                 \* history: the admin's events since /addcodes opened a session
  proc                    \* the process: its environment, how far startup has come

vars ==
  <<pending_verifications, otp_sessions, access_codes, addCodeSessions, hs, prev, dialog, proc>>

---------------------------------------------------------------------------
(* Program constants and the bounded inputs                                *)

ADMIN_ID == 1299129410

\* The users sending events: the admin and one other user.
Users == {ADMIN_ID, 1001}

\* ctx.from of each user: first_name, last_name, username ("" = absent).
From(u) ==
  IF u = ADMIN_ID
    THEN [id |-> u, first_name |-> "Sid", last_name |-> "", username |-> ""]
    ELSE [id |-> u, first_name |-> "Ann", last_name |-> "Lee", username |-> "annlee"]

\* ctx.startPayload, as a sequence of at most one string: <<>> is undefined,
\* <<"">> the empty string (/start with no payload).
Undefined == <<>>
Payloads == {Undefined, <<"">>, <<"s1">>, <<"s2">>}

\* ctx.message.contact of a contact-share: the contact card of a user.
ContactOf(u) ==
  [user_id |-> u, phone_number |-> IF u = ADMIN_ID THEN "+100" ELSE "+200"]

Contacts == {ContactOf(u) : u \in Users}

\* Number of distinct outcomes of Math.random() explored for an OTP.
NumOtpDraws == 2

\* Handler slots (handlers that may be in flight at once).
MaxSlots == 2
Slots == 1..MaxSlots

---------------------------------------------------------------------------
(* Helpers                                                                 *)

\* Firestore collection as a function from document key to document.
EmptyColl == [k \in {} |-> k]

DocExists(coll, key) == key \in DOMAIN coll

\* Mutant of DocSet: an existing document is kept as it is.
DocSet_KeepsExisting(coll, key, data) == coll @@ (key :> data)

\* docRef.set(data): create or fully overwrite the document.
DocSet(coll, key, data) == (key :> data) @@ coll

\* Mutant of DocDelete: nothing is removed.
DocDelete_RemovesNothing(coll, key) == coll

\* docRef.delete(): removing an absent document is no error.
DocDelete(coll, key) == [k \in DOMAIN coll \ {key} |-> coll[k]]

\* user.id.toString()
IdToString(id) == ToString(id)

\* Mutant of generateOTP: the product is rounded up.
generateOTP_RoundsUp(d) == ToString(100000 + d + 1)

\* Math.floor(100000 + Math.random() * 900000).toString(); d is
\* floor(Math.random() * 900000), in 0..899999.
generateOTP(d) == ToString(100000 + d)

\* The values of floor(Math.random() * 900000) explored: the least, the
\* greatest, and evenly spaced ones in between.
OtpDraws == {(i * 899999) \div (NumOtpDraws - 1) : i \in 0..(NumOtpDraws - 1)}

\* [user.first_name, user.last_name].filter(Boolean).join(' ')
TelegramName(user) ==
  IF user.first_name = "" THEN user.last_name
  ELSE IF user.last_name = "" THEN user.first_name
  ELSE user.first_name \o " " \o user.last_name

\* user.username || 'No Username'
TelegramUsername(user) == IF user.username = "" THEN "No Username" ELSE user.username

\* The document the contact handler writes to otp_sessions.
OtpSessionDoc(otp, user, contact) ==
  [otp |-> otp,
   telegram_id |-> user.id,
   telegram_name |-> TelegramName(user),
   telegram_username |-> TelegramUsername(user),
   phone_number |-> contact.phone_number,
   verified |-> FALSE]

\* The document the start handler writes to pending_verifications.
PendingDoc(sessionId) == [session_id |-> sessionId[1]]

---------------------------------------------------------------------------
(* Text helpers of the admin dialog                                        *)

\* The i-th character of a string, as a string.
CharAt(str, i) == SubSeq(str, i, i)

IsWhiteSpace(c) == c \in {" ", "\t", "\n", "\r"}

RECURSIVE trimStart(_)
trimStart(str) ==
  IF Len(str) > 0 /\ IsWhiteSpace(CharAt(str, 1))
    THEN trimStart(SubSeq(str, 2, Len(str)))
    ELSE str

RECURSIVE trimEnd(_)
trimEnd(str) ==
  IF Len(str) > 0 /\ IsWhiteSpace(CharAt(str, Len(str)))
    THEN trimEnd(SubSeq(str, 1, Len(str) - 1))
    ELSE str

\* Mutant of trim: only the white space at the start is removed.
trim_StartOnly(str) == trimStart(str)

\* String.prototype.trim()
trim(str) == trimEnd(trimStart(str))

Digits == "0123456789abcdefghijklmnopqrstuvwxyz"
UpperDigits == "0123456789ABCDEFGHIJKLMNOPQRSTUVWXYZ"

\* The value of every digit character, in either case.
DigitTable ==
  [c \in {CharAt(Digits, i) : i \in 1..36} \cup {CharAt(UpperDigits, i) : i \in 1..36} |->
     (CHOOSE i \in 1..36 : CharAt(Digits, i) = c \/ CharAt(UpperDigits, i) = c) - 1]

\* The value of a character as a digit of the radix, or -1.
DigitValue(c, radix) ==
  IF c \in DOMAIN DigitTable /\ DigitTable[c] < radix THEN DigitTable[c] ELSE -1

\* The value of the longest prefix of str made of digits of the radix, as
\* <<value, number of digits>>.
RECURSIVE DigitPrefix(_, _, _, _)
DigitPrefix(str, radix, acc, n) ==
  IF Len(str) > 0 /\ DigitValue(CharAt(str, 1), radix) >= 0
    THEN DigitPrefix(SubSeq(str, 2, Len(str)), radix,
                     acc * radix + DigitValue(CharAt(str, 1), radix), n + 1)
    ELSE <<acc, n>>

\* NaN, and a number n as <<n>>.
NaN == <<>>
isNaN(x) == x = NaN

\* parseInt(string) with no radix: leading white space is skipped, a sign is
\* taken, 0x / 0X selects radix 16, and the longest prefix of digits is the
\* value; NaN when that prefix is empty.
parseInt(string) ==
  LET s0   == trimStart(string)
      neg  == Len(s0) > 0 /\ CharAt(s0, 1) = "-"
      s1   == IF Len(s0) > 0 /\ CharAt(s0, 1) \in {"+", "-"}
                THEN SubSeq(s0, 2, Len(s0)) ELSE s0
      hex  == Len(s1) >= 2 /\ SubSeq(s1, 1, 2) \in {"0x", "0X"}
      s2   == IF hex THEN SubSeq(s1, 3, Len(s1)) ELSE s1
      pre  == DigitPrefix(s2, IF hex THEN 16 ELSE 10, 0, 0)
  IN IF pre[2] = 0 THEN NaN
     ELSE IF neg THEN <<0 - pre[1]>> ELSE <<pre[1]>>

\* Mutant of InvalidCount: zero is let through.
InvalidCount_AllowsZero(count) == isNaN(count) \/ count[1] < 0 \/ count[1] > 50

\* isNaN(count) || count <= 0 || count > 50
InvalidCount(count) == isNaN(count) \/ count[1] <= 0 \/ count[1] > 50

\* String.prototype.toUpperCase(), on the characters toString(36) produces.
RECURSIVE toUpperCase(_)
toUpperCase(str) ==
  IF Len(str) = 0 THEN ""
  ELSE LET c == CharAt(str, 1)
           v == DigitValue(c, 36)
       IN (IF v >= 0 THEN CharAt(UpperDigits, v + 1) ELSE c)
            \o toUpperCase(SubSeq(str, 2, Len(str)))

\* String.prototype.substring(start, end) for 0 <= start <= end.
substring(str, start, end) ==
  SubSeq(str, start + 1, IF end > Len(str) THEN Len(str) ELSE end)

\* Math.random().toString(36), where f holds the base-36 digits of the
\* fraction ("" for 0).
RandomToString36(f) == IF f = "" THEN "0" ELSE "0." \o f

\* `REDM-${Math.random().toString(36).substring(2, 8).toUpperCase()}`
generateResourceCode(f) == "REDM-" \o toUpperCase(substring(RandomToString36(f), 2, 8))

\* Outcomes of Math.random() explored for a resource code, as the base-36
\* digits of the fraction: two full-length ones and 0.5.
RandomFractions == <<"4fzyo82mvyr", "k3j9x2p0qz1", "i">>

\* Number of random streams explored for a batch of codes.
NumStreams == 2
Streams == 1..NumStreams

\* The code generateResourceCode() returns for each of these outcomes.
ResourceCodes ==
  [j \in 1..Len(RandomFractions) |-> generateResourceCode(RandomFractions[j])]

\* The outcome (index in RandomFractions) of the i-th call of Math.random()
\* on stream k: stream 1 repeats one outcome, the others walk through them.
StreamDraw(k, i) == (((k - 1) * i) % Len(RandomFractions)) + 1

\* Array.from({ length: count }, () => generateResourceCode()); an undefined
\* count (<<>>) gives length 0.
GenerateCodes(count, k) ==
  [i \in 1..(IF count = <<>> THEN 0 ELSE count[1]) |-> ResourceCodes[StreamDraw(k, i)]]

\* The message texts explored in the dialog: two counts (the greatest one
\* accepted among them) and a text that is no number.
Texts == {"2", "50", "abc"}

\* The message texts explored at the count prompt.
CountTexts == {"0", "51", "abc", "2"}

\* access_codes documents the model lets the collection grow to before it
\* stops taking admin events.
MaxDocs == 3

---------------------------------------------------------------------------
(* Handlers                                                                *)

Idle == [op |-> "none", pc |-> "idle"]

Finished(h) == h.pc \in {"idle", "done"}

InFlight == {s \in Slots : ~Finished(hs[s])}

\* What the history keeps of a finished handler: the event, its sender, the
\* start payload, the reply it ended with and the call that rejected; of a
\* handler the process died under, also the handler as it was.
Summary(h) ==
  IF h.op = "none" THEN Idle
  ELSE LET kept == [op |-> h.op, u |-> h.u,
                    payload |-> IF h.op = "start" THEN h.payload ELSE Undefined,
                    reply |-> h.reply, fail |-> h.fail]
       IN IF h.fail = "crash" THEN kept @@ [crashed |-> h] ELSE kept

\* The slot a new handler takes: the lowest one holding no running handler.
FreeSlot(s) == Finished(hs[s]) /\ \A t \in Slots : t < s => ~Finished(hs[t])

\* The process after a startup that went through: the web server listens
\* and the bot is launched.  exitCode is <<>> while the process lives.
Running(token, account) ==
  [phase |-> "running", BOT_TOKEN |-> token, SERVICE_ACCOUNT |-> account,
   web |-> "listening", bot |-> "launched", exitCode |-> <<>>]

\* A new event is dispatched (by the launched bot) while fewer than limit
\* handlers are running.
Begin(s, limit, h) ==
  /\ proc.bot = "launched"
  /\ Cardinality(InFlight) < limit
  /\ FreeSlot(s)
  /\ hs' = [hs EXCEPT ![s] = h]
  /\ UNCHANGED proc

Continue(s, h) == hs' = [hs EXCEPT ![s] = h] /\ UNCHANGED <<prev, dialog, proc>>

\* A verification event is dispatched: while handlers run one at a time the
\* history keeps the event before it.
BeginVerify(s, limit, h) ==
  /\ Begin(s, limit, h)
  /\ prev' = IF limit = 1 THEN Summary(hs[s]) ELSE Idle
  /\ UNCHANGED dialog

StoresUnchanged == UNCHANGED <<pending_verifications, otp_sessions, access_codes>>

\* Mutant of NoPayload: only an undefined payload is taken as absent.
NoPayload_OnlyUndefined(sessionId) == sessionId = Undefined

\* !sessionId
NoPayload(sessionId) == sessionId = Undefined \/ sessionId = <<"">>

\* bot.start: the synchronous part, up to the first await.
Start(s, limit, u, payload) ==
  /\ IF NoPayload(payload)
       THEN BeginVerify(s, limit, [op |-> "start", u |-> u, payload |-> payload,
                                   pc |-> "done", reply |-> "welcome", fail |-> "none"])
       ELSE BeginVerify(s, limit, [op |-> "start", u |-> u, payload |-> payload,
                                   pc |-> "set", reply |-> "none", fail |-> "none"])
  /\ StoresUnchanged
  /\ UNCHANGED addCodeSessions

\* await db.collection('pending_verifications').doc(user.id.toString()).set(..)
StartSet(s) ==
  /\ hs[s].op = "start" /\ hs[s].pc = "set"
  /\ pending_verifications' =
       DocSet(pending_verifications, IdToString(hs[s].u), PendingDoc(hs[s].payload))
  /\ Continue(s, [hs[s] EXCEPT !.pc = "reply"])
  /\ UNCHANGED <<otp_sessions, access_codes, addCodeSessions>>

\* Mutant of StartSetFails: the catch block clears the user's pending record.
StartSetFails_ClearsPending(s) ==
  /\ hs[s].op = "start" /\ hs[s].pc = "set"
  /\ Continue(s, [hs[s] EXCEPT !.pc = "done", !.reply = "system_error", !.fail = "set"])
  /\ pending_verifications' = DocDelete(pending_verifications, IdToString(hs[s].u))
  /\ UNCHANGED <<otp_sessions, access_codes, addCodeSessions>>

\* The set rejects: catch, ctx.reply("System Error").
StartSetFails(s) ==
  /\ hs[s].op = "start" /\ hs[s].pc = "set"
  /\ Continue(s, [hs[s] EXCEPT !.pc = "done", !.reply = "system_error", !.fail = "set"])
  /\ StoresUnchanged
  /\ UNCHANGED addCodeSessions

\* await ctx.reply(<share your phone number>, contactRequest keyboard)
StartReply(s) ==
  /\ hs[s].op = "start" /\ hs[s].pc = "reply"
  /\ Continue(s, [hs[s] EXCEPT !.pc = "done", !.reply = "prompt"])
  /\ StoresUnchanged
  /\ UNCHANGED addCodeSessions

\* The reply rejects: catch, ctx.reply("System Error").
StartReplyFails(s) ==
  /\ hs[s].op = "start" /\ hs[s].pc = "reply"
  /\ Continue(s, [hs[s] EXCEPT !.pc = "done", !.reply = "system_error", !.fail = "reply"])
  /\ StoresUnchanged
  /\ UNCHANGED addCodeSessions

\* Mutant of NotOwnContact: every contact is taken as the sender's own.
NotOwnContact_Never(contactUserId, userId) == FALSE

\* contact.user_id !== user.id
NotOwnContact(contactUserId, userId) == contactUserId # userId

\* bot.on('contact'): the synchronous part, up to the first await.
Contact(s, limit, u, contact) ==
  /\ IF NotOwnContact(contact.user_id, u)
       THEN BeginVerify(s, limit, [op |-> "contact", u |-> u, contact |-> contact,
                                   pc |-> "done", sessionId |-> "", otp |-> "",
                                   reply |-> "not_own", fail |-> "none"])
       ELSE BeginVerify(s, limit, [op |-> "contact", u |-> u, contact |-> contact,
                                   pc |-> "get", sessionId |-> "", otp |-> "",
                                   reply |-> "none", fail |-> "none"])
  /\ StoresUnchanged
  /\ UNCHANGED addCodeSessions

\* const pendingDoc = await pendingDocRef.get(); then, synchronously, the
\* exists test, the read of session_id and generateOTP().
ContactGet(s) ==
  /\ hs[s].op = "contact" /\ hs[s].pc = "get"
  /\ LET key == IdToString(hs[s].u) IN
     IF ~DocExists(pending_verifications, key)
       THEN Continue(s, [hs[s] EXCEPT !.pc = "done", !.reply = "expired"])
       ELSE \E d \in OtpDraws :
              Continue(s, [hs[s] EXCEPT !.pc = "set",
                                        !.sessionId = pending_verifications[key].session_id,
                                        !.otp = generateOTP(d)])
  /\ StoresUnchanged
  /\ UNCHANGED addCodeSessions

\* Mutant of ContactSet: the document is created only when there is none at
\* the session id (create() in place of set(), its rejection not awaited).
ContactSet_CreateOnly(s) ==
  /\ hs[s].op = "contact" /\ hs[s].pc = "set"
  /\ otp_sessions' = DocSet_KeepsExisting(otp_sessions, hs[s].sessionId,
                                          OtpSessionDoc(hs[s].otp, From(hs[s].u), hs[s].contact))
  /\ Continue(s, [hs[s] EXCEPT !.pc = "delete"])
  /\ UNCHANGED <<pending_verifications, access_codes, addCodeSessions>>

\* Mutant of ContactSet: the OtpSession write and the delete of the pending
\* record are sent together.
ContactSet_AlsoDeletes(s) ==
  /\ hs[s].op = "contact" /\ hs[s].pc = "set"
  /\ otp_sessions' = DocSet(otp_sessions, hs[s].sessionId,
                            OtpSessionDoc(hs[s].otp, From(hs[s].u), hs[s].contact))
  /\ pending_verifications' = DocDelete(pending_verifications, IdToString(hs[s].u))
  /\ Continue(s, [hs[s] EXCEPT !.pc = "delete"])
  /\ UNCHANGED <<access_codes, addCodeSessions>>

\* Mutant of ContactSet: the OtpSession is keyed by the user id.
ContactSet_KeyedByUser(s) ==
  /\ hs[s].op = "contact" /\ hs[s].pc = "set"
  /\ otp_sessions' = DocSet(otp_sessions, IdToString(hs[s].u),
                            OtpSessionDoc(hs[s].otp, From(hs[s].u), hs[s].contact))
  /\ Continue(s, [hs[s] EXCEPT !.pc = "delete"])
  /\ UNCHANGED <<pending_verifications, access_codes, addCodeSessions>>

\* await db.collection('otp_sessions').doc(sessionId).set({...})
ContactSet(s) ==
  /\ hs[s].op = "contact" /\ hs[s].pc = "set"
  /\ otp_sessions' = DocSet(otp_sessions, hs[s].sessionId,
                            OtpSessionDoc(hs[s].otp, From(hs[s].u), hs[s].contact))
  /\ Continue(s, [hs[s] EXCEPT !.pc = "delete"])
  /\ UNCHANGED <<pending_verifications, access_codes, addCodeSessions>>

\* await pendingDocRef.delete()
ContactDelete(s) ==
  /\ hs[s].op = "contact" /\ hs[s].pc = "delete"
  /\ pending_verifications' = DocDelete(pending_verifications, IdToString(hs[s].u))
  /\ Continue(s, [hs[s] EXCEPT !.pc = "reply"])
  /\ UNCHANGED <<otp_sessions, access_codes, addCodeSessions>>

\* await ctx.reply(<Your code is: otp>, removeKeyboard)
ContactReply(s) ==
  /\ hs[s].op = "contact" /\ hs[s].pc = "reply"
  /\ Continue(s, [hs[s] EXCEPT !.pc = "done", !.reply = "otp"])
  /\ StoresUnchanged
  /\ UNCHANGED addCodeSessions

\* Mutant of ContactFails: the catch block clears the user's pending record.
ContactFails_CleansUp(s) ==
  /\ hs[s].op = "contact" /\ hs[s].pc \in {"get", "set", "delete", "reply"}
  /\ Continue(s, [hs[s] EXCEPT !.pc = "done", !.reply = "error", !.fail = hs[s].pc])
  /\ pending_verifications' = DocDelete(pending_verifications, IdToString(hs[s].u))
  /\ UNCHANGED <<otp_sessions, access_codes, addCodeSessions>>

\* An awaited call of the contact handler rejects (the get, the set, the
\* delete or the reply): catch, ctx.reply("Error processing contact").
ContactFails(s) ==
  /\ hs[s].op = "contact" /\ hs[s].pc \in {"get", "set", "delete", "reply"}
  /\ Continue(s, [hs[s] EXCEPT !.pc = "done", !.reply = "error", !.fail = hs[s].pc])
  /\ StoresUnchanged
  /\ UNCHANGED addCodeSessions

---------------------------------------------------------------------------
(* The admin dialog                                                        *)

\* addCodeSessions.set(key, value) / .delete(key) / .get(key)
MapSet(map, key, value) == (key :> value) @@ map
MapDelete(map, key) == [k \in DOMAIN map \ {key} |-> map[k]]
MapHas(map, key) == key \in DOMAIN map

\* A session object is a function from its property names to their values;
\* a property that was never assigned is not in its domain (undefined).
Defined(session, field) == field \in DOMAIN session
Assign(session, field, value) == (field :> value) @@ session
CountOf(session) == IF Defined(session, "count") THEN <<session.count>> ELSE <<>>

\* Mutant of NotAdmin: every sender passes for the admin.
NotAdmin_Never(id) == FALSE

\* ctx.from.id !== ADMIN_ID
NotAdmin(id) == id # ADMIN_ID

NoDialog == [events |-> <<>>, base |-> <<>>]

\* An event as the history keeps it: the event, its sender, the text sent and
\* the codes the reply showed.
DialogEvent(h) ==
  [op |-> h.op, u |-> h.u,
   text |-> IF h.op = "text" THEN h.text ELSE "",
   shown |-> IF h.op = "text" THEN h.shown ELSE <<>>]

\* The history of the admin dialog: /addcodes of the admin, sent while the
\* admin has no session, opens it (base is access_codes at that moment); it
\* then takes three text messages and up to two confirms of the admin, and
\* any other event closes it.
NextDialog(h) ==
  IF h.op = "addcodes" /\ h.u = ADMIN_ID /\ ~MapHas(addCodeSessions, ADMIN_ID)
    THEN [events |-> <<DialogEvent(h)>>, base |-> access_codes]
  ELSE IF /\ dialog.events # <<>>
          /\ h.u = ADMIN_ID
          /\ \/ Len(dialog.events) \in 1..3 /\ h.op = "text"
             \/ Len(dialog.events) \in 4..5 /\ h.op = "confirm_add"
    THEN [dialog EXCEPT !.events = Append(@, DialogEvent(h))]
  ELSE NoDialog

\* An admin-dialog event is dispatched.
BeginAdmin(s, limit, h) ==
  /\ Len(access_codes) < MaxDocs
  /\ Begin(s, limit, h)
  /\ dialog' = NextDialog(h)
  /\ UNCHANGED prev

\* The step of the session a handler removed or replaced, as the history
\* keeps it: <<>> when the sender had none.
StepOf(map, u) == IF MapHas(map, u) THEN <<map[u].step>> ELSE <<>>

\* bot.command('addcodes').  The handler record keeps the step of the session
\* it replaced (history).
AddCodes(s, limit, u) ==
  /\ IF NotAdmin(u)
       THEN /\ BeginAdmin(s, limit, [op |-> "addcodes", u |-> u, pc |-> "done",
                                     removed |-> StepOf(addCodeSessions, u),
                                     reply |-> "unauthorized", fail |-> "none"])
            /\ UNCHANGED addCodeSessions
       ELSE /\ BeginAdmin(s, limit, [op |-> "addcodes", u |-> u, pc |-> "done",
                                     removed |-> StepOf(addCodeSessions, u),
                                     reply |-> "ask_count", fail |-> "none"])
            /\ addCodeSessions' = MapSet(addCodeSessions, u, [step |-> "ASK_COUNT"])
  /\ StoresUnchanged

\* Mutant of TextStep: a text sent while the preview is shown is taken as a
\* new link.
TextStep_PreviewTakesLink(session, input, k) ==
  CASE session.step = "ASK_COUNT" ->
         LET count == parseInt(input) IN
         IF InvalidCount(count)
           THEN [session |-> session, reply |-> "invalid_number", shown |-> <<>>]
           ELSE [session |-> Assign(Assign(session, "count", count[1]), "step", "ASK_NAME"),
                 reply |-> "ask_name", shown |-> <<>>]
    [] session.step = "ASK_NAME" ->
         [session |-> Assign(Assign(session, "name", input), "step", "ASK_LINK"),
          reply |-> "ask_link", shown |-> <<>>]
    [] session.step = "ASK_LINK" ->
         LET codes == GenerateCodes(CountOf(session), k) IN
         [session |-> Assign(Assign(Assign(session, "link", input), "step", "PREVIEW"),
                             "codes", codes),
          reply |-> "preview", shown |-> codes]
    [] OTHER -> [session |-> Assign(session, "link", input), reply |-> "none",
                 shown |-> <<>>]

\* The switch of bot.on('text') on session.step, for the trimmed input; k is
\* the random stream the codes of the preview are drawn from.  The result is
\* the session object after the handler, the reply sent and the codes that
\* reply shows.
TextStep(session, input, k) ==
  CASE session.step = "ASK_COUNT" ->
         LET count == parseInt(input) IN
         IF InvalidCount(count)
           THEN [session |-> session, reply |-> "invalid_number", shown |-> <<>>]
           ELSE [session |-> Assign(Assign(session, "count", count[1]), "step", "ASK_NAME"),
                 reply |-> "ask_name", shown |-> <<>>]
    [] session.step = "ASK_NAME" ->
         [session |-> Assign(Assign(session, "name", input), "step", "ASK_LINK"),
          reply |-> "ask_link", shown |-> <<>>]
    [] session.step = "ASK_LINK" ->
         LET codes == GenerateCodes(CountOf(session), k) IN
         [session |-> Assign(Assign(Assign(session, "link", input), "step", "PREVIEW"),
                             "codes", codes),
          reply |-> "preview", shown |-> codes]
    [] OTHER -> [session |-> session, reply |-> "none", shown |-> <<>>]

\* bot.on('text'): without a session of the sender the event goes on to the
\* handlers registered after it (next()), none of which takes a plain text.
TextMessage(s, limit, u, text) ==
  /\ IF ~MapHas(addCodeSessions, u)
       THEN /\ BeginAdmin(s, limit, [op |-> "text", u |-> u, text |-> text, pc |-> "done",
                                     reply |-> "next", shown |-> <<>>, fail |-> "none"])
            /\ UNCHANGED addCodeSessions
       ELSE \E k \in Streams :
              LET r == TextStep(addCodeSessions[u], trim(text), k) IN
              /\ BeginAdmin(s, limit, [op |-> "text", u |-> u, text |-> text, pc |-> "done",
                                       reply |-> r.reply, shown |-> r.shown,
                                       fail |-> "none"])
              /\ addCodeSessions' = MapSet(addCodeSessions, u, r.session)
  /\ StoresUnchanged

\* The document batch.set() writes for one code.
AccessCodeDoc(code, session) ==
  [code |-> code,
   resourceName |-> session.name,
   downloadUrl |-> session.link,
   isUsed |-> FALSE]

\* The synchronous part of the try block of confirm_add throws: forEach of
\* an undefined session.codes, or batch.set() of a document holding an
\* undefined resourceName or downloadUrl.
BuildBatchThrows(session) ==
  \/ ~Defined(session, "codes")
  \/ /\ session.codes # <<>>
     /\ ~Defined(session, "name") \/ ~Defined(session, "link")

\* Mutant of BuildBatch: the last code is left out.
BuildBatch_DropsLast(session) ==
  [i \in 1..(Len(session.codes) - 1) |-> AccessCodeDoc(session.codes[i], session)]

\* The writes of the batch, in the order of session.codes.
BuildBatch(session) ==
  [i \in 1..Len(session.codes) |-> AccessCodeDoc(session.codes[i], session)]

\* Mutant of ConfirmAdd: the session looked up is the admin's, whoever
\* pressed the button.
ConfirmAdd_AdminSession(s, limit, u) ==
  /\ IF ~MapHas(addCodeSessions, ADMIN_ID)
       THEN BeginAdmin(s, limit, [op |-> "confirm_add", u |-> u, pc |-> "done",
                                  batch |-> <<>>, reply |-> "session_expired",
                                  fail |-> "none"])
       ELSE IF BuildBatchThrows(addCodeSessions[ADMIN_ID])
       THEN BeginAdmin(s, limit, [op |-> "confirm_add", u |-> u, pc |-> "done",
                                  batch |-> <<>>, reply |-> "database_error",
                                  fail |-> "throw"])
       ELSE BeginAdmin(s, limit, [op |-> "confirm_add", u |-> u, pc |-> "commit",
                                  batch |-> BuildBatch(addCodeSessions[ADMIN_ID]),
                                  reply |-> "none", fail |-> "none"])
  /\ StoresUnchanged
  /\ UNCHANGED addCodeSessions

\* bot.action('confirm_add'): the synchronous part, up to await batch.commit()
ConfirmAdd(s, limit, u) ==
  /\ IF ~MapHas(addCodeSessions, u)
       THEN BeginAdmin(s, limit, [op |-> "confirm_add", u |-> u, pc |-> "done",
                                  batch |-> <<>>, reply |-> "session_expired",
                                  fail |-> "none"])
       ELSE IF BuildBatchThrows(addCodeSessions[u])
       THEN BeginAdmin(s, limit, [op |-> "confirm_add", u |-> u, pc |-> "done",
                                  batch |-> <<>>, reply |-> "database_error",
                                  fail |-> "throw"])
       ELSE BeginAdmin(s, limit, [op |-> "confirm_add", u |-> u, pc |-> "commit",
                                  batch |-> BuildBatch(addCodeSessions[u]),
                                  reply |-> "none", fail |-> "none"])
  /\ StoresUnchanged
  /\ UNCHANGED addCodeSessions

\* Mutant of ConfirmCommit: the batch is written over the collection.
ConfirmCommit_Replaces(s) ==
  /\ hs[s].op = "confirm_add" /\ hs[s].pc = "commit"
  /\ access_codes' = hs[s].batch
  /\ Continue(s, [hs[s] EXCEPT !.pc = "edit"])
  /\ UNCHANGED <<pending_verifications, otp_sessions, addCodeSessions>>

\* await batch.commit(): every document of the batch is added, each under a
\* new auto-generated id.
ConfirmCommit(s) ==
  /\ hs[s].op = "confirm_add" /\ hs[s].pc = "commit"
  /\ access_codes' = access_codes \o hs[s].batch
  /\ Continue(s, [hs[s] EXCEPT !.pc = "edit"])
  /\ UNCHANGED <<pending_verifications, otp_sessions, addCodeSessions>>

\* Mutant of ConfirmCommitFails: the documents are written one by one and
\* the first write has gone through when the failure comes.
ConfirmCommitFails_PartialWrite(s) ==
  /\ hs[s].op = "confirm_add" /\ hs[s].pc = "commit"
  /\ Continue(s, [hs[s] EXCEPT !.pc = "done", !.reply = "database_error", !.fail = "commit"])
  /\ access_codes' = access_codes \o (IF hs[s].batch = <<>> THEN <<>> ELSE <<hs[s].batch[1]>>)
  /\ UNCHANGED <<pending_verifications, otp_sessions, addCodeSessions>>

\* Mutant of ConfirmCommitFails: the catch block drops the session.
ConfirmCommitFails_DropsSession(s) ==
  /\ hs[s].op = "confirm_add" /\ hs[s].pc = "commit"
  /\ Continue(s, [hs[s] EXCEPT !.pc = "done", !.reply = "database_error", !.fail = "commit"])
  /\ addCodeSessions' = MapDelete(addCodeSessions, hs[s].u)
  /\ StoresUnchanged

\* The commit rejects (no document of the batch is written): catch,
\* ctx.reply("Database Error").
ConfirmCommitFails(s) ==
  /\ hs[s].op = "confirm_add" /\ hs[s].pc = "commit"
  /\ Continue(s, [hs[s] EXCEPT !.pc = "done", !.reply = "database_error", !.fail = "commit"])
  /\ StoresUnchanged
  /\ UNCHANGED addCodeSessions

\* await ctx.editMessageText(<Added ...>); addCodeSessions.delete(ctx.from.id)
ConfirmEdit(s) ==
  /\ hs[s].op = "confirm_add" /\ hs[s].pc = "edit"
  /\ addCodeSessions' = MapDelete(addCodeSessions, hs[s].u)
  /\ Continue(s, [hs[s] EXCEPT !.pc = "done", !.reply = "added"])
  /\ StoresUnchanged

\* editMessageText rejects: catch, ctx.reply("Database Error"); the delete of
\* the session is skipped.
ConfirmEditFails(s) ==
  /\ hs[s].op = "confirm_add" /\ hs[s].pc = "edit"
  /\ Continue(s, [hs[s] EXCEPT !.pc = "done", !.reply = "database_error", !.fail = "edit"])
  /\ StoresUnchanged
  /\ UNCHANGED addCodeSessions

\* session.codes before the handler ran, as the history keeps it: <<>> when
\* the property was undefined.
CodesOf(session) == IF Defined(session, "codes") THEN session.codes ELSE <<>>

\* Mutant of RegenerateCodes: the session is replaced by a new object holding
\* the step and the new codes only.
RegenerateCodes_NewSession(s, limit, u, k) ==
  /\ IF ~MapHas(addCodeSessions, u)
       THEN /\ BeginAdmin(s, limit, [op |-> "regenerate_codes", u |-> u, pc |-> "done",
                                     replaced |-> <<>>,
                                     reply |-> "none", fail |-> "none"])
            /\ UNCHANGED addCodeSessions
       ELSE /\ BeginAdmin(s, limit, [op |-> "regenerate_codes", u |-> u, pc |-> "done",
                                     replaced |-> CodesOf(addCodeSessions[u]),
                                     reply |-> "regenerated", fail |-> "none"])
            /\ addCodeSessions' =
                 MapSet(addCodeSessions, u,
                        [step |-> addCodeSessions[u].step,
                         codes |-> GenerateCodes(CountOf(addCodeSessions[u]), k)])
  /\ StoresUnchanged

\* bot.action('regenerate_codes'); k is the random stream of the new codes.
\* The handler record keeps the codes the session held before (history).
RegenerateCodes(s, limit, u, k) ==
  /\ IF ~MapHas(addCodeSessions, u)
       THEN /\ BeginAdmin(s, limit, [op |-> "regenerate_codes", u |-> u, pc |-> "done",
                                     replaced |-> <<>>,
                                     reply |-> "none", fail |-> "none"])
            /\ UNCHANGED addCodeSessions
       ELSE /\ BeginAdmin(s, limit, [op |-> "regenerate_codes", u |-> u, pc |-> "done",
                                     replaced |-> CodesOf(addCodeSessions[u]),
                                     reply |-> "regenerated", fail |-> "none"])
            /\ addCodeSessions' =
                 MapSet(addCodeSessions, u,
                        Assign(addCodeSessions[u], "codes",
                               GenerateCodes(CountOf(addCodeSessions[u]), k)))
  /\ StoresUnchanged

\* Mutant of CancelAdd: the session is removed only when it shows a preview.
CancelAdd_PreviewOnly(s, limit, u) ==
  /\ BeginAdmin(s, limit, [op |-> "cancel_add", u |-> u, pc |-> "done",
                           removed |-> StepOf(addCodeSessions, u),
                           reply |-> "cancelled", fail |-> "none"])
  /\ addCodeSessions' =
       IF StepOf(addCodeSessions, u) = <<"PREVIEW">>
         THEN MapDelete(addCodeSessions, u) ELSE addCodeSessions
  /\ StoresUnchanged

\* bot.action('cancel_add').  The handler record keeps the step of the
\* session it removed (history).
CancelAdd(s, limit, u) ==
  /\ BeginAdmin(s, limit, [op |-> "cancel_add", u |-> u, pc |-> "done",
                           removed |-> StepOf(addCodeSessions, u),
                           reply |-> "cancelled", fail |-> "none"])
  /\ addCodeSessions' = MapDelete(addCodeSessions, u)
  /\ StoresUnchanged

\* Telegraf's command trigger: the message text starts with a bot_command
\* entity, "/" and the command name, ended by the end of the text or by
\* white space.
IsCommand(text, command) ==
  LET n == Len(command) + 1 IN
  /\ Len(text) >= n
  /\ SubSeq(text, 1, n) = "/" \o command
  /\ Len(text) = n \/ IsWhiteSpace(CharAt(text, n + 1))

\* Mutant of Message: bot.on('text') is registered before
\* bot.command('addcodes') and takes every text of a sender with a session.
Message_TextFirst(s, limit, u, text) ==
  IF ~MapHas(addCodeSessions, u) /\ IsCommand(text, "addcodes")
    THEN AddCodes(s, limit, u)
    ELSE TextMessage(s, limit, u, text)

\* A text message goes through the middleware in the order of registration:
\* bot.command('addcodes') comes before bot.on('text') and does not call
\* next(), so the text handler sees only what is not that command.
Message(s, limit, u, text) ==
  IF IsCommand(text, "addcodes")
    THEN AddCodes(s, limit, u)
    ELSE TextMessage(s, limit, u, text)

---------------------------------------------------------------------------
(* The code listing: /getcodes and the refresh_codes_list action           *)

\* The characters of the texts explored, in the order of their code points.
AsciiOrder == " +-0123456789ABCDEFGHIJKLMNOPQRSTUVWXYZabcdefghijklmnopqrstuvwxyz"

CharRank ==
  [c \in {CharAt(AsciiOrder, i) : i \in 1..Len(AsciiOrder)} |->
     CHOOSE i \in 1..Len(AsciiOrder) : CharAt(AsciiOrder, i) = c]

\* a sorts before b in Firestore's order of strings (by code point).
RECURSIVE StrLess(_, _)
StrLess(a, b) ==
  IF Len(a) = 0 THEN Len(b) > 0
  ELSE IF Len(b) = 0 THEN FALSE
  ELSE IF CharAt(a, 1) # CharAt(b, 1)
    THEN CharRank[CharAt(a, 1)] < CharRank[CharAt(b, 1)]
  ELSE StrLess(SubSeq(a, 2, Len(a)), SubSeq(b, 2, Len(b)))

\* .where('isUsed', '==', false)
RECURSIVE WhereUnused(_)
WhereUnused(docs) ==
  IF docs = <<>> THEN <<>>
  ELSE (IF Head(docs).isUsed = FALSE THEN <<Head(docs)>> ELSE <<>>)
         \o WhereUnused(Tail(docs))

\* doc put into a sequence sorted by resourceName, after the documents of
\* the same resourceName (documents of one name come in the order of their
\* ids, which is here the order they were added in).
RECURSIVE InsertByName(_, _)
InsertByName(doc, sorted) ==
  IF sorted = <<>> THEN <<doc>>
  ELSE IF StrLess(doc.resourceName, Head(sorted).resourceName)
    THEN <<doc>> \o sorted
  ELSE <<Head(sorted)>> \o InsertByName(doc, Tail(sorted))

\* .orderBy('resourceName')
RECURSIVE OrderByName(_)
OrderByName(docs) ==
  IF docs = <<>> THEN <<>>
  ELSE InsertByName(docs[Len(docs)], OrderByName(SubSeq(docs, 1, Len(docs) - 1)))

\* snapshot.forEach(..): the lines of the message, a line with the resource
\* name wherever it differs from the one before, and a line for every code.
RECURSIVE ListLines(_, _)
ListLines(docs, currentResource) ==
  IF docs = <<>> THEN <<>>
  ELSE LET data == Head(docs) IN
       (IF currentResource # data.resourceName
          THEN <<[kind |-> "resource", text |-> data.resourceName]>> ELSE <<>>)
       \o <<[kind |-> "code", text |-> data.code]>>
       \o ListLines(Tail(docs), data.resourceName)

\* fetchAvailableCodes(), for the documents the query returns.
fetchAvailableCodes(docs) ==
  LET snapshot == OrderByName(WhereUnused(docs)) IN
  IF snapshot = <<>> THEN <<[kind |-> "none", text |-> ""]>>
  ELSE <<[kind |-> "title", text |-> ""]>> \o ListLines(snapshot, "")

\* The record of a listing handler: queried tells whether the query on
\* access_codes was issued, message is the list it got.
Listing(op, u, pc, queried, reply) ==
  [op |-> op, u |-> u, pc |-> pc, queried |-> queried, message |-> <<>>,
   reply |-> reply, fail |-> "none"]

\* bot.command('getcodes'): the synchronous part, up to the await of the
\* query inside fetchAvailableCodes().
GetCodes(s, limit, u) ==
  /\ IF NotAdmin(u)
       THEN BeginAdmin(s, limit, Listing("getcodes", u, "done", FALSE, "unauthorized"))
       ELSE BeginAdmin(s, limit, Listing("getcodes", u, "fetch", TRUE, "none"))
  /\ StoresUnchanged
  /\ UNCHANGED addCodeSessions

\* Mutant of RefreshCodesList: the test of the sender is missing.
RefreshCodesList_NoGuard(s, limit, u) ==
  /\ BeginAdmin(s, limit, Listing("refresh_codes_list", u, "fetch", TRUE, "none"))
  /\ StoresUnchanged
  /\ UNCHANGED addCodeSessions

\* bot.action('refresh_codes_list'): the synchronous part.
RefreshCodesList(s, limit, u) ==
  /\ IF NotAdmin(u)
       THEN BeginAdmin(s, limit,
                       Listing("refresh_codes_list", u, "done", FALSE, "unauthorized"))
       ELSE BeginAdmin(s, limit, Listing("refresh_codes_list", u, "fetch", TRUE, "none"))
  /\ StoresUnchanged
  /\ UNCHANGED addCodeSessions

IsListing(h) == h.op \in {"getcodes", "refresh_codes_list"}

\* const message = await fetchAvailableCodes(): the query returns.
ListFetch(s) ==
  /\ IsListing(hs[s]) /\ hs[s].pc = "fetch"
  /\ Continue(s, [hs[s] EXCEPT !.message = fetchAvailableCodes(access_codes),
                               !.pc = IF hs[s].op = "getcodes" THEN "reply" ELSE "edit"])
  /\ StoresUnchanged
  /\ UNCHANGED addCodeSessions

\* The query rejects; fetchAvailableCodes() throws it on.  /getcodes: catch,
\* ctx.reply("Failed to fetch codes"); refresh: catch, await answerCbQuery.
ListFetchFails(s) ==
  /\ IsListing(hs[s]) /\ hs[s].pc = "fetch"
  /\ IF hs[s].op = "getcodes"
       THEN Continue(s, [hs[s] EXCEPT !.pc = "done", !.reply = "failed", !.fail = "fetch"])
       ELSE Continue(s, [hs[s] EXCEPT !.pc = "answer_error", !.fail = "fetch"])
  /\ StoresUnchanged
  /\ UNCHANGED addCodeSessions

\* /getcodes: await ctx.reply(message, <Refresh List button>)
GetCodesReply(s) ==
  /\ hs[s].op = "getcodes" /\ hs[s].pc = "reply"
  /\ Continue(s, [hs[s] EXCEPT !.pc = "done", !.reply = "list"])
  /\ StoresUnchanged
  /\ UNCHANGED addCodeSessions

\* The reply rejects: catch, ctx.reply("Failed to fetch codes").
GetCodesReplyFails(s) ==
  /\ hs[s].op = "getcodes" /\ hs[s].pc = "reply"
  /\ Continue(s, [hs[s] EXCEPT !.pc = "done", !.reply = "failed", !.fail = "reply"])
  /\ StoresUnchanged
  /\ UNCHANGED addCodeSessions

\* refresh: await ctx.editMessageText(message, <Refresh List button>)
RefreshEdit(s) ==
  /\ hs[s].op = "refresh_codes_list" /\ hs[s].pc = "edit"
  /\ Continue(s, [hs[s] EXCEPT !.pc = "answer", !.reply = "list"])
  /\ StoresUnchanged
  /\ UNCHANGED addCodeSessions

\* editMessageText rejects (as it does when the list has not changed): catch.
RefreshEditFails(s) ==
  /\ hs[s].op = "refresh_codes_list" /\ hs[s].pc = "edit"
  /\ Continue(s, [hs[s] EXCEPT !.pc = "answer_error", !.fail = "edit"])
  /\ StoresUnchanged
  /\ UNCHANGED addCodeSessions

\* refresh: await ctx.answerCbQuery("List Refreshed!"); when it rejects, the
\* catch block runs.
RefreshAnswer(s) ==
  /\ hs[s].op = "refresh_codes_list" /\ hs[s].pc = "answer"
  /\ \/ Continue(s, [hs[s] EXCEPT !.pc = "done"])
     \/ Continue(s, [hs[s] EXCEPT !.pc = "answer_error", !.fail = "answer"])
  /\ StoresUnchanged
  /\ UNCHANGED addCodeSessions

\* refresh, catch block: await ctx.answerCbQuery("No changes found or
\* Error."); the handler ends here, also when this call rejects.
RefreshAnswerError(s) ==
  /\ hs[s].op = "refresh_codes_list" /\ hs[s].pc = "answer_error"
  /\ Continue(s, [hs[s] EXCEPT !.pc = "done",
                               !.reply = IF hs[s].reply = "list" THEN "list" ELSE "no_changes"])
  /\ StoresUnchanged
  /\ UNCHANGED addCodeSessions

---------------------------------------------------------------------------
(* Startup                                                                 *)

\* process.env.BOT_TOKEN and process.env.FIREBASE_SERVICE_ACCOUNT: <<>> when
\* the variable is not set, <<value>> when it is.
TokenValues == {<<>>, <<"">>, <<"7:tok">>}
AccountValues == {<<>>, <<"">>, <<"oops">>, <<"{\"project_id\":\"p\"}">>}

\* The process when the script starts to run.
Booting(token, account) ==
  [phase |-> "listen", BOT_TOKEN |-> token, SERVICE_ACCOUNT |-> account,
   web |-> "off", bot |-> "off", exitCode |-> <<>>]

\* !value, for a value of process.env
Not(value) == value = <<>> \/ value = <<"">>

\* !BOT_TOKEN || !SERVICE_ACCOUNT
MissingEnv(token, account) == Not(token) \/ Not(account)

\* process.exit(code): the process ends, and with it the web server and
\* the bot.
Exit(code) ==
  proc' = [proc EXCEPT !.phase = "exited", !.web = "off", !.bot = "off",
                       !.exitCode = <<code>>]

StartupFrame ==
  UNCHANGED <<pending_verifications, otp_sessions, access_codes, addCodeSessions,
              hs, prev, dialog>>

\* app.listen(PORT, ..): the web server is started before the environment
\* is looked at.
Listen ==
  /\ proc.phase = "listen"
  /\ proc' = [proc EXCEPT !.phase = "check", !.web = "listening"]
  /\ StartupFrame

\* Mutant of CheckEnv: the error is logged and startup goes on.
CheckEnv_LogsOnly ==
  /\ proc.phase = "check"
  /\ proc' = [proc EXCEPT !.phase = "firebase"]
  /\ StartupFrame

\* if (!BOT_TOKEN || !SERVICE_ACCOUNT) { console.error(..); process.exit(1); }
CheckEnv ==
  /\ proc.phase = "check"
  /\ IF MissingEnv(proc.BOT_TOKEN, proc.SERVICE_ACCOUNT)
       THEN Exit(1)
       ELSE proc' = [proc EXCEPT !.phase = "firebase"]
  /\ StartupFrame

\* JSON.parse(text) returns (for the texts explored: a text in braces is a
\* JSON object); it throws for undefined and for any other text.
JsonParses(value) ==
  /\ value # <<>>
  /\ Len(value[1]) >= 2
  /\ CharAt(value[1], 1) = "{" /\ CharAt(value[1], Len(value[1])) = "}"

\* try { JSON.parse(SERVICE_ACCOUNT); admin.initializeApp({credential:
\* cert(..)}) } catch { process.exit(1) }: the parse throws, or cert /
\* initializeApp throw for what the object holds, or Firebase is set up.
InitFirebase ==
  /\ proc.phase = "firebase"
  /\ \/ ~JsonParses(proc.SERVICE_ACCOUNT) /\ Exit(1)
     \/ JsonParses(proc.SERVICE_ACCOUNT) /\ Exit(1)
     \/ JsonParses(proc.SERVICE_ACCOUNT) /\ proc' = [proc EXCEPT !.phase = "launch"]
  /\ StartupFrame

\* new Telegraf(BOT_TOKEN), the registration of the handlers, bot.launch()
Launch ==
  /\ proc.phase = "launch"
  /\ proc' = [proc EXCEPT !.phase = "running", !.bot = "launched"]
  /\ StartupFrame

\* What is left of a handler when the process dies under it: it runs no
\* further; the history keeps the await it was at.
Crashed(h) ==
  IF Finished(h) THEN h
  ELSE [h EXCEPT !.pc = "done", !.fail = "crash"] @@ [at |-> h.pc]

\* The process dies (an uncaught error, a kill, the host going down): the
\* handlers in flight and the Map addCodeSessions are gone with it, the
\* collections stay as they are.
Crash ==
  /\ proc.phase = "running"
  /\ Exit(1)
  /\ hs' = [s \in Slots |-> Crashed(hs[s])]
  /\ addCodeSessions' = EmptyColl
  /\ dialog' = NoDialog
  /\ UNCHANGED <<pending_verifications, otp_sessions, access_codes, prev>>

\* The script is run again in the same environment and startup goes through.
Restart ==
  /\ proc.phase = "exited"
  /\ ~MissingEnv(proc.BOT_TOKEN, proc.SERVICE_ACCOUNT)
  /\ proc' = Running(proc.BOT_TOKEN, proc.SERVICE_ACCOUNT)
  /\ StartupFrame

---------------------------------------------------------------------------
Init ==
  /\ pending_verifications = EmptyColl
  /\ otp_sessions = EmptyColl
  /\ access_codes = <<>>
  /\ addCodeSessions = EmptyColl
  /\ hs = [s \in Slots |-> Idle]
  /\ prev = Idle
  /\ dialog = NoDialog
  /\ proc = Running(<<"7:tok">>, <<"{\"project_id\":\"p\"}">>)

\* The verification flow, with limit handlers running at once, the events
\* sent by users with the start payloads of payloads and the contact cards
\* of contacts.
VerifyEvents(limit, users, payloads, contacts) ==
  \E s \in Slots :
    \/ \E u \in users, p \in payloads : Start(s, limit, u, p)
    \/ StartSet(s)
    \/ StartSetFails(s)
    \/ StartReply(s)
    \/ StartReplyFails(s)
    \/ \E u \in users, c \in contacts : Contact(s, limit, u, c)
    \/ ContactGet(s)
    \/ ContactSet(s)
    \/ ContactDelete(s)
    \/ ContactReply(s)
    \/ ContactFails(s)

VerifyNext(limit) == VerifyEvents(limit, Users, Payloads, Contacts)

\* Handlers run one at a time: an event is dispatched when the handler of the
\* event before it has finished.
VerifySeqNext == VerifyNext(1)

VerifySpec == Init /\ [][VerifySeqNext]_vars

\* The admin dialog, with limit handlers running at once and the text
\* messages drawn from texts.
AdminNext(limit, texts) ==
  \E s \in Slots :
    \/ \E u \in Users : AddCodes(s, limit, u)
    \/ \E u \in Users, t \in texts : TextMessage(s, limit, u, t)
    \/ \E u \in Users : ConfirmAdd(s, limit, u)
    \/ ConfirmCommit(s)
    \/ ConfirmCommitFails(s)
    \/ ConfirmEdit(s)
    \/ ConfirmEditFails(s)
    \/ \E u \in Users, k \in Streams : RegenerateCodes(s, limit, u, k)
    \/ \E u \in Users : CancelAdd(s, limit, u)

AdminSeqNext == AdminNext(1, Texts)

AdminSpec == Init /\ [][AdminSeqNext]_vars

\* The admin dialog with the texts of the count prompt.
AdminCountNext == AdminNext(1, CountTexts)

AdminCountSpec == Init /\ [][AdminCountNext]_vars

\* The admin dialog with every text message going through the router: the
\* command, the command with an argument, and a text that serves as count,
\* name and link.
RouterTexts == {"/addcodes", "/addcodes 5", "2"}

RouterNext ==
  \E s \in Slots :
    \/ \E u \in Users, t \in RouterTexts : Message(s, 1, u, t)
    \/ \E u \in Users : ConfirmAdd(s, 1, u)
    \/ ConfirmCommit(s)
    \/ ConfirmCommitFails(s)
    \/ ConfirmEdit(s)
    \/ ConfirmEditFails(s)
    \/ \E u \in Users, k \in Streams : RegenerateCodes(s, 1, u, k)
    \/ \E u \in Users : CancelAdd(s, 1, u)

RouterSpec == Init /\ [][RouterNext]_vars

\* The admin dialog with texts that carry white space around them, digits
\* followed by letters, and a decimal fraction.
RawTexts == {" 2 ", "2abc", "2.5", " a b "}

AdminTextNext == AdminNext(1, RawTexts)

AdminTextSpec == Init /\ [][AdminTextNext]_vars

\* The documents access_codes may hold when the bot starts: codes the bot
\* generated in an earlier run, for two resources, some of them marked used
\* since (by the website).
ListDocs ==
  [code : {ResourceCodes[1], ResourceCodes[2]},
   resourceName : {"abc", "1"},
   downloadUrl : {"u"},
   isUsed : BOOLEAN]

\* The bot is running over a collection that holds some documents already.
ListInit ==
  /\ pending_verifications = EmptyColl
  /\ otp_sessions = EmptyColl
  /\ access_codes \in UNION {[1..n -> ListDocs] : n \in 0..(MaxDocs - 1)}
  /\ addCodeSessions = EmptyColl
  /\ hs = [s \in Slots |-> Idle]
  /\ prev = Idle
  /\ dialog = NoDialog
  /\ proc = Running(<<"7:tok">>, <<"{\"project_id\":\"p\"}">>)

\* The message text explored along with the code listing.
ListTexts == {"1"}

\* The code listing, together with the admin dialog up to its preview (so
\* that there are sessions), handlers one at a time.
ListNext ==
  \E s \in Slots :
       \/ \E u \in Users : AddCodes(s, 1, u)
       \/ \E u \in Users, t \in ListTexts : TextMessage(s, 1, u, t)
       \/ \E u \in Users : CancelAdd(s, 1, u)
       \/ \E u \in Users : GetCodes(s, 1, u)
       \/ \E u \in Users : RefreshCodesList(s, 1, u)
       \/ ListFetch(s)
       \/ ListFetchFails(s)
       \/ GetCodesReply(s)
       \/ GetCodesReplyFails(s)
       \/ RefreshEdit(s)
       \/ RefreshEditFails(s)
       \/ RefreshAnswer(s)
       \/ RefreshAnswerError(s)

ListSpec == ListInit /\ [][ListNext]_vars

\* The start payloads explored with overlapping handlers: two session ids
\* for one user, and one of them for the other user too.
ConcPayloads == {<<"s1">>, <<"s2">>}
SharedPayloads == {<<"s1">>}

\* The verification flow with overlapping handlers: an event is dispatched
\* while another handler waits at an await (two handlers at once); every
\* user shares their own contact card.
VerifyConcNext ==
  \/ VerifyEvents(2, Users \ {ADMIN_ID}, ConcPayloads,
                  {ContactOf(u) : u \in Users \ {ADMIN_ID}})
  \/ VerifyEvents(2, {ADMIN_ID}, SharedPayloads, {ContactOf(ADMIN_ID)})

VerifyConcSpec == Init /\ [][VerifyConcNext]_vars

\* Every kind of event, handlers one at a time: the admin dialog for both
\* users with one text (regenerate pressed by the other user only), and the
\* verification flow of the user who is not the admin.
AllEventsTexts == {"2"}

AllEventsNext ==
  \/ \E s \in Slots :
       \/ \E u \in Users : AddCodes(s, 1, u)
       \/ \E u \in Users, t \in AllEventsTexts : TextMessage(s, 1, u, t)
       \/ \E u \in Users : ConfirmAdd(s, 1, u)
       \/ ConfirmCommit(s)
       \/ ConfirmCommitFails(s)
       \/ ConfirmEdit(s)
       \/ ConfirmEditFails(s)
       \/ \E u \in Users \ {ADMIN_ID}, k \in Streams : RegenerateCodes(s, 1, u, k)
       \/ \E u \in Users : CancelAdd(s, 1, u)
  \/ VerifyEvents(1, Users \ {ADMIN_ID}, SharedPayloads, {ContactOf(u) : u \in Users \ {ADMIN_ID}})

AllEventsSpec == Init /\ [][AllEventsNext]_vars

\* The admin's dialog with up to two handlers in flight: an event of the
\* admin is dispatched while a confirm waits at one of its awaits.
AdminConcTexts == {"2"}

AdminConcNext ==
  \E s \in Slots :
    \/ AddCodes(s, 2, ADMIN_ID)
    \/ \E t \in AdminConcTexts : TextMessage(s, 2, ADMIN_ID, t)
    \/ ConfirmAdd(s, 2, ADMIN_ID)
    \/ ConfirmCommit(s)
    \/ ConfirmCommitFails(s)
    \/ ConfirmEdit(s)
    \/ ConfirmEditFails(s)
    \/ CancelAdd(s, 2, ADMIN_ID)

AdminConcSpec == Init /\ [][AdminConcNext]_vars

\* The verification flow, handlers one at a time, in a process that may die
\* at any moment and be started again.
CrashNext ==
  \/ VerifyEvents(1, Users, ConcPayloads, Contacts)
  \/ Crash
  \/ Restart

CrashSpec == Init /\ [][CrashNext]_vars

\* The script is started in any of the environments explored.
StartupInit ==
  /\ pending_verifications = EmptyColl
  /\ otp_sessions = EmptyColl
  /\ access_codes = <<>>
  /\ addCodeSessions = EmptyColl
  /\ hs = [s \in Slots |-> Idle]
  /\ prev = Idle
  /\ dialog = NoDialog
  /\ \E token \in TokenValues, account \in AccountValues : proc = Booting(token, account)

\* Startup, and the verification flow of the bot once it is launched.
StartupNext ==
  \/ Listen
  \/ CheckEnv
  \/ InitFirebase
  \/ Launch
  \/ VerifySeqNext

StartupSpec == StartupInit /\ [][StartupNext]_vars

---------------------------------------------------------------------------
(* Properties of the verification flow, under VerifySpec                   *)

\* The handler of the latest event and the event before it (handlers run one
\* at a time, in slot 1).
cur == hs[1]

AllStoresUnchanged ==
  UNCHANGED <<pending_verifications, otp_sessions, access_codes, addCodeSessions>>

StoreFailure(h) == h.fail \in {"get", "set", "delete", "commit"}

\* C1: start(u, p) with a non-empty payload followed at once by a
\* contact-share of u's own contact, with no store failure, leaves an
\* OtpSession at key p with telegram_id = u, phone_number = the shared phone
\* and verified = false, and no pending_verifications document at key u.
C1_StartThenContact ==
  \A u \in Users, p \in Payloads :
    ( /\ ~(p = Undefined \/ p = <<"">>)
      /\ prev.op = "start" /\ prev.u = u /\ prev.payload = p /\ ~StoreFailure(prev)
      /\ cur.op = "contact" /\ cur.u = u /\ cur.contact.user_id = u
      /\ cur.pc = "done" /\ ~StoreFailure(cur) )
    => /\ DocExists(otp_sessions, p[1])
       /\ otp_sessions[p[1]].telegram_id = u
       /\ otp_sessions[p[1]].phone_number = cur.contact.phone_number
       /\ otp_sessions[p[1]].verified = FALSE
       /\ ~DocExists(pending_verifications, IdToString(u))

C1_Witness ==
  /\ prev.op = "start" /\ prev.payload = <<"s2">> /\ prev.reply = "prompt"
  /\ cur.op = "contact" /\ cur.u = prev.u /\ cur.pc = "done" /\ cur.reply = "otp"
  /\ DocExists(otp_sessions, "s2") /\ otp_sessions["s2"].otp = cur.otp

\* C2: a contact-share whose contact belongs to another user changes no
\* collection and no admin session, whatever pending record exists.
C2_ForeignContactChangesNothing ==
  [][(cur'.op = "contact" /\ cur'.contact.user_id # cur'.u) => AllStoresUnchanged]_vars

C2_Witness ==
  /\ cur.op = "contact" /\ cur.contact.user_id # cur.u
  /\ cur.pc = "done" /\ cur.reply = "not_own"
  /\ DocExists(pending_verifications, IdToString(cur.u))
  /\ DocExists(pending_verifications, IdToString(cur.contact.user_id))

\* C3: a contact-share of u dispatched and looked up while
\* pending_verifications holds no document at key u changes no store and
\* ends there, without an OTP; and a
\* contact-share of u that follows a successful one (no start in between)
\* changes no store at any of its steps and ends without an OTP.
C3_NoPendingIsNoOp ==
  [][ /\ ( /\ Finished(cur) \/ cur.pc = "get"
           /\ cur'.op = "contact" /\ cur'.contact.user_id = cur'.u
           /\ ~DocExists(pending_verifications, IdToString(cur'.u)) )
         => /\ AllStoresUnchanged
            /\ cur'.pc \in {"get", "done"}
            /\ cur'.reply \in {"none", "expired", "error"}
      /\ ( /\ prev'.op = "contact" /\ prev'.reply = "otp"
           /\ cur'.op = "contact" /\ cur'.u = prev'.u )
         => /\ AllStoresUnchanged
            /\ cur'.reply \in {"none", "not_own", "expired", "error"}
    ]_vars

C3_Witness ==
  /\ prev.op = "contact" /\ prev.reply = "otp"
  /\ cur.op = "contact" /\ cur.u = prev.u /\ cur.contact.user_id = cur.u
  /\ cur.pc = "done" /\ cur.reply = "expired"
  /\ otp_sessions # EmptyColl

\* C4: start with an empty or absent payload writes no pending record and
\* leaves every collection and the admin session map as they were.
C4_StartWithoutPayloadChangesNothing ==
  [][ (cur'.op = "start" /\ (cur'.payload = Undefined \/ cur'.payload = <<"">>))
      => AllStoresUnchanged /\ cur'.pc = "done" /\ cur'.reply = "welcome" ]_vars

C4_Witness ==
  /\ cur.op = "start" /\ cur.payload = <<"">> /\ cur.pc = "done"
  /\ DocExists(pending_verifications, IdToString(cur.u))

\* C5: pending_verifications holds at most one document per user, keyed by
\* the user's id; a start whose write has succeeded leaves session_id = its
\* payload at the sender's key (the last start wins), and the write changes
\* the document of no other user.
C5_LastStartWins ==
  [][ /\ DOMAIN pending_verifications' \subseteq {IdToString(u) : u \in Users}
      /\ ( /\ cur'.op = "start" /\ cur'.pc \in {"reply", "done"}
           /\ cur'.reply # "welcome" /\ cur'.fail # "set" )
         => pending_verifications'[IdToString(cur'.u)].session_id = cur'.payload[1]
      /\ \A u \in Users :
           (cur'.op = "start" /\ cur'.u # u)
           => /\ DocExists(pending_verifications', IdToString(u))
                   = DocExists(pending_verifications, IdToString(u))
              /\ DocExists(pending_verifications, IdToString(u))
                   => pending_verifications'[IdToString(u)]
                        = pending_verifications[IdToString(u)]
    ]_vars

C5_Witness ==
  /\ prev.op = "start" /\ prev.reply = "prompt" /\ prev.payload = <<"s1">>
  /\ cur.op = "start" /\ cur.u = prev.u /\ cur.pc = "done" /\ cur.reply = "prompt"
  /\ cur.payload = <<"s2">>
  /\ pending_verifications[IdToString(cur.u)].session_id = "s2"
  /\ \E u \in Users : u # cur.u /\ DocExists(pending_verifications, IdToString(u))

---------------------------------------------------------------------------
(* Properties of the admin dialog, under AdminSpec and AdminCountSpec      *)

\* The decimal numeral of n is what the admin sent as the count.
IsNumeral(text, n) == text = ToString(n)

\* C6: /addcodes of a user who is not the admin creates no session and
\* changes no collection; it is answered "unauthorized".
C6_AddCodesUnauthorized ==
  [][ (cur'.op = "addcodes" /\ cur'.u # ADMIN_ID)
      => AllStoresUnchanged /\ cur'.pc = "done" /\ cur'.reply = "unauthorized" ]_vars

C6_Witness ==
  /\ cur.op = "addcodes" /\ cur.u # ADMIN_ID /\ cur.reply = "unauthorized"
  /\ MapHas(addCodeSessions, ADMIN_ID) /\ ~MapHas(addCodeSessions, cur.u)

\* C7: from no admin session, /addcodes, the numeral of n (1..50), a name, a
\* link: the preview shows n codes; then confirm, with no failure:
\* access_codes is what it was at /addcodes followed by exactly n documents,
\* the i-th with the i-th code shown, resourceName = name, downloadUrl =
\* link and isUsed = false, and the admin has no session.
C7_DialogEndToEnd ==
  \A n \in 1..50 :
    ( /\ Len(dialog.events) \in 4..5
      /\ IsNumeral(dialog.events[2].text, n) )
    => /\ Len(dialog.events[4].shown) = n
       /\ ( Len(dialog.events) = 5 /\ cur.pc = "done" /\ cur.fail = "none" )
          => /\ Len(access_codes) = Len(dialog.base) + n
             /\ SubSeq(access_codes, 1, Len(dialog.base)) = dialog.base
             /\ \A i \in 1..n :
                  access_codes[Len(dialog.base) + i] =
                    [code |-> dialog.events[4].shown[i],
                     resourceName |-> dialog.events[3].text,
                     downloadUrl |-> dialog.events[4].text,
                     isUsed |-> FALSE]
             /\ ~MapHas(addCodeSessions, ADMIN_ID)

C7_Witness ==
  /\ Len(dialog.events) = 5 /\ dialog.events[2].text = "50"
  /\ dialog.events[3].text = "abc" /\ dialog.events[4].text = "2"
  /\ cur.op = "confirm_add" /\ cur.pc = "done" /\ cur.reply = "added"
  /\ Len(dialog.base) = 2 /\ Len(access_codes) = 52
  /\ access_codes[52].code # access_codes[51].code

\* C8: at step ASK_COUNT the texts "0", "51" and "abc", and every text whose
\* parse is no number, a number <= 0 or a number > 50, leave the session as
\* it is, in step ASK_COUNT with no count, and change no collection.
C8_InvalidCountRejected ==
  [][ ( /\ cur'.op = "text"
        /\ MapHas(addCodeSessions, cur'.u)
        /\ addCodeSessions[cur'.u].step = "ASK_COUNT"
        /\ \/ cur'.text \in {"0", "51", "abc"}
           \/ LET c == parseInt(cur'.text) IN c = NaN \/ c[1] <= 0 \/ c[1] > 50 )
      => /\ AllStoresUnchanged
         /\ addCodeSessions'[cur'.u].step = "ASK_COUNT"
         /\ ~Defined(addCodeSessions'[cur'.u], "count")
         /\ cur'.reply = "invalid_number" /\ cur'.shown = <<>> ]_vars

C8_Witness ==
  /\ cur.op = "text" /\ cur.text = "51" /\ cur.reply = "invalid_number"
  /\ MapHas(addCodeSessions, cur.u) /\ addCodeSessions[cur.u].step = "ASK_COUNT"

\* C9: a step of a confirm handler adds to access_codes either nothing or,
\* at the commit, one document for every code the session holds, after the
\* documents already there; a handler commits once.
C9_ConfirmAllOrNothing ==
  [][ cur'.op = "confirm_add"
      => \/ access_codes' = access_codes
         \/ /\ cur.op = "confirm_add" /\ cur.pc = "commit" /\ cur'.pc = "edit"
            /\ Len(access_codes') =
                 Len(access_codes) + Len(addCodeSessions[cur.u].codes)
            /\ SubSeq(access_codes', 1, Len(access_codes)) = access_codes ]_vars

C9_Witness ==
  /\ cur.op = "confirm_add" /\ cur.pc = "done" /\ cur.fail = "commit"
  /\ Len(cur.batch) = 2 /\ Len(access_codes) = 2

\* C10: when the commit of a confirm fails, the session stays as it is
\* (step, count, name, link, codes) and no document is added; the next
\* confirm goes straight to the commit of the same documents, and its commit
\* adds exactly those.
C10_FailedCommitKeepsSession ==
  [][ /\ ( cur.op = "confirm_add" /\ cur.pc = "commit" /\ cur'.fail = "commit" )
         => /\ AllStoresUnchanged
            /\ MapHas(addCodeSessions, cur.u)
            /\ [i \in 1..Len(cur.batch) |-> cur.batch[i].code] = addCodeSessions[cur.u].codes
      /\ ( /\ cur.op = "confirm_add" /\ cur.pc = "done" /\ cur.fail = "commit"
           /\ cur'.op = "confirm_add" /\ cur'.u = cur.u )
         => /\ cur'.pc = "commit"
            /\ cur'.batch = cur.batch
      /\ ( cur.op = "confirm_add" /\ cur.pc = "commit" /\ cur'.pc = "edit" )
         => access_codes' = access_codes \o cur.batch
    ]_vars

C10_Witness ==
  /\ Len(dialog.events) = 6
  /\ cur.op = "confirm_add" /\ cur.pc = "done" /\ cur.reply = "added"
  /\ Len(cur.batch) = 2
  /\ access_codes = dialog.base \o cur.batch

\* C11: regenerate on a session in step PREVIEW replaces session.codes by a
\* newly generated sequence of session.count codes, leaves step, count, name
\* and link (and the set of properties) as they were, ends in the step that
\* dispatched it, and changes no collection and no other session.
C11_RegenerateKeepsSession ==
  [][ ( /\ cur'.op = "regenerate_codes"
        /\ MapHas(addCodeSessions, cur'.u)
        /\ addCodeSessions[cur'.u].step = "PREVIEW" )
      => /\ UNCHANGED <<pending_verifications, otp_sessions, access_codes>>
         /\ cur'.pc = "done"
         /\ DOMAIN addCodeSessions' = DOMAIN addCodeSessions
         /\ LET old == addCodeSessions[cur'.u]
                new == addCodeSessions'[cur'.u]
            IN /\ DOMAIN new = DOMAIN old
               /\ \A f \in {"step", "count", "name", "link"} : new[f] = old[f]
               /\ Len(new.codes) = old.count
               /\ Len(new.codes) = Len(old.codes)
               /\ \E k \in Streams : new.codes = GenerateCodes(<<old.count>>, k)
               /\ cur'.replaced = old.codes ]_vars

C11_Witness ==
  /\ cur.op = "regenerate_codes" /\ cur.reply = "regenerated"
  /\ MapHas(addCodeSessions, cur.u)
  /\ addCodeSessions[cur.u].step = "PREVIEW" /\ addCodeSessions[cur.u].count = 50
  /\ Len(cur.replaced) = 50
  /\ Len(addCodeSessions[cur.u].codes) = 50
  /\ addCodeSessions[cur.u].codes # cur.replaced

\* C12: cancel leaves the sender without a session, whatever step the
\* session was in and also when there was none; the session of every other
\* user and every collection stay as they were.
C12_CancelRemovesSession ==
  [][ cur'.op = "cancel_add"
      => /\ UNCHANGED <<pending_verifications, otp_sessions, access_codes>>
         /\ cur'.pc = "done"
         /\ ~MapHas(addCodeSessions', cur'.u)
         /\ DOMAIN addCodeSessions' = DOMAIN addCodeSessions \ {cur'.u}
         /\ \A v \in DOMAIN addCodeSessions' : addCodeSessions'[v] = addCodeSessions[v] ]_vars

C12_Witness ==
  /\ cur.op = "cancel_add" /\ cur.u = ADMIN_ID /\ cur.removed = <<"ASK_NAME">>
  /\ ~MapHas(addCodeSessions, ADMIN_ID)

---------------------------------------------------------------------------
(* Properties of the values the bot generates                              *)

\* C13: a document of otp_sessions, once there, stays there with every
\* field as it is, whatever start or contact-share comes later.
C13_OtpSessionImmutable ==
  [][ \A k \in DOMAIN otp_sessions :
        DocExists(otp_sessions', k) /\ otp_sessions'[k] = otp_sessions[k] ]_vars

\* A string of exactly 6 decimal digits whose value lies in 100000..999999.
IsOtp(str) ==
  /\ Len(str) = 6
  /\ \A i \in 1..Len(str) : DigitValue(CharAt(str, i), 10) >= 0
  /\ DigitPrefix(str, 10, 0, 0)[1] \in 100000..999999

\* C14: the otp a contact handler holds from generateOTP() on, every otp
\* stored in otp_sessions and every otp replied is a string of 6 decimal
\* digits with a value in 100000..999999.
C14_OtpSixDigits ==
  /\ \A k \in DOMAIN otp_sessions : IsOtp(otp_sessions[k].otp)
  /\ \A s \in Slots :
       ( hs[s].op = "contact"
         /\ (hs[s].pc \in {"set", "delete", "reply"} \/ hs[s].reply = "otp") )
       => IsOtp(hs[s].otp)

C14_Witness ==
  /\ cur.op = "contact" /\ cur.pc = "done" /\ cur.reply = "otp" /\ cur.otp = "999999"
  /\ DocExists(otp_sessions, cur.sessionId) /\ otp_sessions[cur.sessionId].otp = "999999"
  /\ \E k \in DOMAIN otp_sessions : otp_sessions[k].otp = "100000"

\* REDM- followed by exactly 6 characters out of A-Z and 0-9.
IsResourceCode(code) ==
  /\ Len(code) = 11
  /\ SubSeq(code, 1, 5) = "REDM-"
  /\ \A i \in 6..11 : \E j \in 1..36 : CharAt(code, i) = CharAt(UpperDigits, j)

\* C15: every code a session holds, every code a preview shows and every
\* code of a document of access_codes is REDM- followed by exactly 6
\* characters out of A-Z and 0-9.
C15_ResourceCodeFormat ==
  /\ \A u \in DOMAIN addCodeSessions :
       Defined(addCodeSessions[u], "codes")
       => \A i \in 1..Len(addCodeSessions[u].codes) :
            IsResourceCode(addCodeSessions[u].codes[i])
  /\ cur.op = "text" => \A i \in 1..Len(cur.shown) : IsResourceCode(cur.shown[i])
  /\ \A i \in 1..Len(access_codes) : IsResourceCode(access_codes[i].code)

---------------------------------------------------------------------------
(* Properties of the code listing, under ListSpec                          *)

\* C16: no step of a /getcodes or refresh_codes_list handler changes a
\* collection or an admin session; for a sender who is not the admin the
\* handler ends at once with "unauthorized", having issued no query and
\* holding no list.
C16_ListingAdminOnlyReadOnly ==
  [][ IsListing(cur')
      => /\ AllStoresUnchanged
         /\ cur'.u # ADMIN_ID
            => /\ cur'.pc = "done" /\ cur'.reply = "unauthorized"
               /\ ~cur'.queried /\ cur'.message = <<>> ]_vars

C16_Witness ==
  /\ cur.op = "refresh_codes_list" /\ cur.u # ADMIN_ID /\ cur.reply = "unauthorized"
  /\ Len(access_codes) >= 2 /\ \E i \in 1..Len(access_codes) : ~access_codes[i].isUsed
  /\ MapHas(addCodeSessions, ADMIN_ID) /\ addCodeSessions[ADMIN_ID].step = "PREVIEW"

---------------------------------------------------------------------------
(* Properties of startup, under StartupSpec                                *)

\* The bot token or the service-account credential is not set, or is empty.
EnvMissing ==
  \/ proc.BOT_TOKEN \in {<<>>, <<"">>}
  \/ proc.SERVICE_ACCOUNT \in {<<>>, <<"">>}

\* C17: when the bot token or the service-account credential is missing,
\* the step that looks at the environment ends the process with exit code
\* 1; the process never gets past it: the bot is never launched, no handler
\* ever runs, no collection is written, and once the process has ended the
\* web server is off too.
C17_MissingEnvAbortsStartup ==
  [][ EnvMissing
      => /\ proc.phase = "check" => proc'.phase = "exited"
         /\ proc'.phase \in {"check", "exited"}
         /\ proc'.bot = "off"
         /\ proc'.phase = "exited" => proc'.web = "off" /\ proc'.exitCode = <<1>>
         /\ \A s \in Slots : hs'[s] = Idle
         /\ pending_verifications' = EmptyColl /\ otp_sessions' = EmptyColl
         /\ access_codes' = <<>> /\ addCodeSessions' = EmptyColl ]_vars

C17_Witness ==
  /\ proc.BOT_TOKEN = <<"7:tok">> /\ proc.SERVICE_ACCOUNT = <<>>
  /\ proc.phase = "exited" /\ proc.exitCode = <<1>>
  /\ proc.web = "off" /\ proc.bot = "off"

---------------------------------------------------------------------------
(* Properties of overlapping verification handlers, under VerifyConcSpec   *)

\* C18: a step that removes the pending_verifications document of a user is
\* the delete of a contact-share handler of that user, which has written an
\* OtpSession at the session_id the removed document holds.
C18_DeleteOnlyConsumed ==
  [][ \A u \in Users :
        LET key == IdToString(u) IN
        ( DocExists(pending_verifications, key)
          /\ ~DocExists(pending_verifications', key) )
        => \E s \in Slots :
             /\ hs[s].op = "contact" /\ hs[s].u = u
             /\ hs[s].pc = "delete" /\ hs'[s].pc = "reply"
             /\ DocExists(otp_sessions, hs[s].sessionId)
             /\ hs[s].sessionId = pending_verifications[key].session_id ]_vars

\* Contact-share handlers a and b of one user both hold the session id they
\* read from the user's pending record.
ReadSame(a, b) ==
  /\ a # b
  /\ hs[a].op = "contact" /\ hs[b].op = "contact" /\ hs[a].u = hs[b].u
  /\ hs[a].sessionId # "" /\ hs[a].sessionId = hs[b].sessionId
  /\ hs[a].fail = "none" /\ hs[b].fail = "none"

\* The step is handler a's write of its OtpSession.
WritesOtp(a) == hs[a].pc = "set" /\ hs'[a].pc = "delete"

\* C19: when two contact-share handlers of one user hold the same session
\* id: each one's write leaves its own OTP in the one OtpSession at that
\* session id and nothing but such a write changes otp_sessions (the last
\* write wins); each one's delete succeeds, leaves the user without a
\* pending record and changes nothing else; and when both have replied
\* their OTP the user has no pending record and the OtpSession at that
\* session id holds the OTP of one of the two.
C19_TwoContactShares ==
  [][ \A a, b \in Slots :
        ReadSame(a, b)
        => LET sid == hs[a].sessionId
               key == IdToString(hs[a].u)
           IN /\ WritesOtp(a)
                 => /\ DocExists(otp_sessions', sid)
                    /\ otp_sessions'[sid].otp = hs[a].otp
                    /\ otp_sessions'[sid].telegram_id = hs[a].u
                    /\ DOMAIN otp_sessions' = DOMAIN otp_sessions \cup {sid}
                    /\ \A k \in DOMAIN otp_sessions \ {sid} :
                         otp_sessions'[k] = otp_sessions[k]
              /\ (~WritesOtp(a) /\ ~WritesOtp(b)) => otp_sessions' = otp_sessions
              /\ (hs[a].pc = "delete" /\ hs'[a].pc = "reply")
                 => /\ ~DocExists(pending_verifications', key)
                    /\ \A k \in DOMAIN pending_verifications \ {key} :
                         /\ DocExists(pending_verifications', k)
                         /\ pending_verifications'[k] = pending_verifications[k]
              /\ ( hs'[a].reply = "otp" /\ hs'[b].reply = "otp"
                   /\ hs'[a].op = "contact" /\ hs'[b].op = "contact" )
                 => /\ ~DocExists(pending_verifications', key)
                    /\ DocExists(otp_sessions', sid)
                    /\ otp_sessions'[sid].otp \in {hs[a].otp, hs[b].otp} ]_vars

C19_Witness ==
  /\ ReadSame(1, 2)
  /\ hs[1].pc = "done" /\ hs[1].reply = "otp"
  /\ hs[2].pc = "done" /\ hs[2].reply = "otp"
  /\ hs[1].otp # hs[2].otp
  /\ otp_sessions[hs[1].sessionId].otp = hs[1].otp
  /\ ~DocExists(pending_verifications, IdToString(hs[1].u))

\* C20: at the step in which a contact-share handler replies its OTP, the
\* OtpSession at the handler's session id holds that OTP.
C20_RepliedOtpIsStored ==
  [][ \A s \in Slots :
        ( /\ hs[s].op = "contact" /\ hs[s].pc = "reply"
          /\ hs'[s].pc = "done" /\ hs'[s].reply = "otp" )
        => /\ DocExists(otp_sessions, hs[s].sessionId)
           /\ otp_sessions[hs[s].sessionId].otp = hs[s].otp ]_vars

---------------------------------------------------------------------------
(* Store failures in the verification flow, under VerifySpec               *)

\* C22: in a contact-share handler a store call that rejects (the read, the
\* OtpSession write or the pending delete) ends the handler with the generic
\* error reply, never the OTP, and changes no store; up to its OtpSession
\* write the handler changes no store either, and once it has ended no store
\* changes until a later handler writes; so after a failed delete the
\* OtpSession is written and the pending record is still present.
C22_ContactStoreFailure ==
  [][ /\ ( cur.op = "contact" /\ cur.pc \in {"get", "set", "delete"}
           /\ cur'.fail = cur.pc )
         => /\ cur'.pc = "done" /\ cur'.reply = "error"
            /\ cur'.otp = cur.otp /\ cur'.sessionId = cur.sessionId
            /\ AllStoresUnchanged
      /\ ( cur.op = "contact" /\ cur.pc \in {"get", "set"} /\ cur'.pc # "delete" )
         => AllStoresUnchanged
      /\ ( cur.op = "contact" /\ cur.fail \in {"get", "set", "delete"} )
         => AllStoresUnchanged
      /\ ( cur'.op = "contact" /\ cur'.fail = "delete" )
         => /\ DocExists(otp_sessions', cur'.sessionId)
            /\ otp_sessions'[cur'.sessionId]
                 = OtpSessionDoc(cur'.otp, From(cur'.u), cur'.contact)
            /\ DocExists(pending_verifications', IdToString(cur'.u))
            /\ pending_verifications'[IdToString(cur'.u)].session_id = cur'.sessionId ]_vars

C22_Witness ==
  /\ cur.op = "contact" /\ cur.pc = "done" /\ cur.fail = "delete" /\ cur.reply = "error"
  /\ DocExists(otp_sessions, cur.sessionId)
  /\ otp_sessions[cur.sessionId].otp = cur.otp
  /\ DocExists(pending_verifications, IdToString(cur.u))

\* C23: when the pending_verifications write of start(u, p) rejects, the
\* handler ends with the system-error reply, not the prompt, and neither the
\* event's dispatch nor the failing write changes any store: the pending
\* record of u is what it was before the event.
C23_StartWriteFailure ==
  [][ /\ ( cur'.op = "start" /\ cur'.pc = "set" ) => AllStoresUnchanged
      /\ ( cur.op = "start" /\ cur.pc = "set" /\ cur'.fail = "set" )
         => /\ cur'.pc = "done" /\ cur'.reply = "system_error"
            /\ cur'.u = cur.u /\ cur'.payload = cur.payload
            /\ AllStoresUnchanged ]_vars

C23_Witness ==
  /\ cur.op = "start" /\ cur.pc = "done" /\ cur.fail = "set"
  /\ cur.reply = "system_error" /\ cur.payload = <<"s2">>
  /\ DocExists(pending_verifications, IdToString(cur.u))
  /\ pending_verifications[IdToString(cur.u)].session_id = "s1"

---------------------------------------------------------------------------
(* Properties of the verification flow across a crash, under CrashSpec     *)

\* The process died under contact-share handler h after its OtpSession
\* write and before its delete of the pending record.
CrashedAfterWrite(h) == h.op = "contact" /\ h.fail = "crash" /\ h.at = "delete"

\* C21: when the process has died under a contact-share handler between its
\* OtpSession write and its delete, the user's pending record is still there
\* with the session id the handler read, and the OtpSession holds the
\* handler's OTP; the user's next contact-share (the first event after the
\* restart, with no failure) reads that same session id, generates an OTP,
\* writes it over the OtpSession at that session id, and then deletes the
\* pending record.
C21_CrashBetweenWriteAndDelete ==
  [][ /\ CrashedAfterWrite(cur')
         => /\ DocExists(pending_verifications', IdToString(cur'.u))
            /\ pending_verifications'[IdToString(cur'.u)].session_id = cur'.sessionId
            /\ DocExists(otp_sessions', cur'.sessionId)
            /\ otp_sessions'[cur'.sessionId].otp = cur'.otp
      /\ ( /\ prev'.op = "contact" /\ prev'.fail = "crash"
           /\ CrashedAfterWrite(prev'.crashed)
           /\ cur'.op = "contact" /\ cur'.u = prev'.u
           /\ cur'.contact.user_id = cur'.u /\ cur'.fail = "none" )
         => LET sid == prev'.crashed.sessionId
                key == IdToString(cur'.u)
            IN /\ cur'.pc \in {"get", "set", "delete"}
                  => /\ DocExists(pending_verifications', key)
                     /\ pending_verifications'[key].session_id = sid
               /\ cur'.pc \in {"set", "delete", "reply", "done"}
                  => cur'.sessionId = sid /\ IsOtp(cur'.otp)
               /\ cur'.pc \in {"get", "set"}
                  => otp_sessions'[sid].otp = prev'.crashed.otp
               /\ cur'.pc \in {"delete", "reply", "done"}
                  => /\ otp_sessions'[sid].otp = cur'.otp
                     /\ DOMAIN otp_sessions' = DOMAIN otp_sessions
               /\ cur'.pc \in {"reply", "done"}
                  => ~DocExists(pending_verifications', key) ]_vars

C21_Witness ==
  /\ prev.op = "contact" /\ prev.fail = "crash" /\ CrashedAfterWrite(prev.crashed)
  /\ cur.op = "contact" /\ cur.u = prev.u /\ cur.pc = "done" /\ cur.reply = "otp"
  /\ cur.sessionId = prev.crashed.sessionId
  /\ cur.otp # prev.crashed.otp
  /\ otp_sessions[cur.sessionId].otp = cur.otp
  /\ ~DocExists(pending_verifications, IdToString(cur.u))
  /\ proc.phase = "running"

---------------------------------------------------------------------------
(* The steps the admin dialog guards on, under AdminSpec                   *)

\* The commit of confirm handler h, of at least one code, went through and
\* the handler has ended.
Committed(h) ==
  /\ h.op = "confirm_add" /\ h.pc = "done" /\ h.batch # <<>>
  /\ h.reply = "added" \/ h.fail = "edit"

\* C24: once the batch commit of a confirm has gone through and the handler
\* has ended (also when its editMessageText rejected), the sender has no
\* session, and a confirm of the same sender handled next answers "Session
\* Expired" and commits nothing.
C24_BatchCommittedOnce ==
  [][ Committed(cur)
      => /\ ~MapHas(addCodeSessions, cur.u)
         /\ (cur'.op = "confirm_add" /\ cur'.u = cur.u)
            => cur'.pc = "done" /\ cur'.reply = "session_expired" ]_vars

\* C25: a regenerate of a sender who has no session, or whose session is
\* not in step PREVIEW, leaves the Map addCodeSessions (the session and its
\* codes) and the three collections unchanged.
C25_RegenerateOnlyInPreview ==
  [][ ( cur'.op = "regenerate_codes"
        /\ StepOf(addCodeSessions, cur'.u) # <<"PREVIEW">> )
      => AllStoresUnchanged ]_vars

\* C26: no step of a confirm handler whose sender's session is in ASK_COUNT,
\* ASK_NAME or ASK_LINK changes access_codes or the Map addCodeSessions,
\* whatever dialog events came before.
C26_ConfirmOnlyInPreview ==
  [][ ( cur'.op = "confirm_add" /\ MapHas(addCodeSessions, cur'.u)
        /\ addCodeSessions[cur'.u].step # "PREVIEW" )
      => AllStoresUnchanged ]_vars

\* C28: in every session, count, once set, is an integer in 1..50; codes,
\* once both are set, has exactly count elements; and a session in step
\* PREVIEW has count, name, link and codes set.
C28_SessionShape ==
  \A u \in DOMAIN addCodeSessions :
    LET session == addCodeSessions[u] IN
    /\ Defined(session, "count") => session.count \in 1..50
    /\ Defined(session, "codes") /\ Defined(session, "count")
       => Len(session.codes) = session.count
    /\ session.step = "PREVIEW"
       => /\ Defined(session, "count") /\ Defined(session, "name")
          /\ Defined(session, "link") /\ Defined(session, "codes")

---------------------------------------------------------------------------
(* The /addcodes command in the router, under RouterSpec                   *)

\* C27: /addcodes of the admin, whatever session the admin has (none, or one
\* in ASK_COUNT, ASK_NAME, ASK_LINK or PREVIEW), leaves exactly one session,
\* the admin's, holding the step ASK_COUNT and nothing else (no count, name,
\* link or codes), and changes no collection; and no text handler ever runs
\* on a text that is the command.
C27_AddCodesResetsSession ==
  [][ /\ ( cur'.op = "addcodes" /\ cur'.u = ADMIN_ID )
         => /\ DOMAIN addCodeSessions' = {ADMIN_ID}
            /\ addCodeSessions'[ADMIN_ID] = [step |-> "ASK_COUNT"]
            /\ cur'.reply = "ask_count"
            /\ UNCHANGED <<pending_verifications, otp_sessions, access_codes>>
      /\ cur'.op = "text" => cur'.text \notin {"/addcodes", "/addcodes 5"} ]_vars

C27_Witness ==
  /\ cur.op = "addcodes" /\ cur.u = ADMIN_ID /\ cur.removed = <<"PREVIEW">>
  /\ addCodeSessions = (ADMIN_ID :> [step |-> "ASK_COUNT"])

---------------------------------------------------------------------------
(* The texts of the admin dialog, under AdminTextSpec                      *)

\* The text t is the text str without the white space at its two ends.
Trimmed(str, t) ==
  \E i \in 1..(Len(str) + 1), j \in 0..Len(str) :
    /\ i <= j + 1
    /\ t = SubSeq(str, i, j)
    /\ \A k \in 1..(i - 1) : IsWhiteSpace(CharAt(str, k))
    /\ \A k \in (j + 1)..Len(str) : IsWhiteSpace(CharAt(str, k))
    /\ i <= j => ~IsWhiteSpace(CharAt(str, i)) /\ ~IsWhiteSpace(CharAt(str, j))

\* The whole of text, but for white space at its ends, is the decimal
\* numeral of n.
DenotesInteger(text, n) == Trimmed(text, ToString(n))

\* C29: a text sent at step ASK_COUNT is accepted (the count is stored and
\* the step becomes ASK_NAME) exactly when the whole text is the numeral of
\* an integer n in 1..50, and the count stored is n; any other text gets the
\* re-prompt and changes nothing.
C29_CountIsWholeInteger ==
  [][ ( /\ cur'.op = "text"
        /\ MapHas(addCodeSessions, cur'.u)
        /\ addCodeSessions[cur'.u].step = "ASK_COUNT" )
      => IF \E n \in 1..50 : DenotesInteger(cur'.text, n)
           THEN /\ addCodeSessions'[cur'.u].step = "ASK_NAME"
                /\ DenotesInteger(cur'.text, addCodeSessions'[cur'.u].count)
           ELSE /\ cur'.reply = "invalid_number"
                /\ AllStoresUnchanged ]_vars

\* The documents a commit step adds carry the session's name and link.
CommitWritesSessionTexts ==
  ( cur.op = "confirm_add" /\ cur.pc = "commit" /\ cur'.pc = "edit" )
  => /\ Len(access_codes') = Len(access_codes) + Len(addCodeSessions[cur.u].codes)
     /\ \A i \in (Len(access_codes) + 1)..Len(access_codes') :
          /\ access_codes'[i].resourceName = addCodeSessions[cur.u].name
          /\ access_codes'[i].downloadUrl = addCodeSessions[cur.u].link

\* C30, as stated: the name stored at ASK_NAME and the link stored at
\* ASK_LINK are the text the admin sent, character for character, and
\* confirm writes these strings as resourceName and downloadUrl.
C30_NameAndLinkVerbatim ==
  [][ /\ ( cur'.op = "text" /\ StepOf(addCodeSessions, cur'.u) = <<"ASK_NAME">> )
         => addCodeSessions'[cur'.u].name = cur'.text
      /\ ( cur'.op = "text" /\ StepOf(addCodeSessions, cur'.u) = <<"ASK_LINK">> )
         => addCodeSessions'[cur'.u].link = cur'.text
      /\ CommitWritesSessionTexts ]_vars

\* C30, amended: the name stored at ASK_NAME and the link stored at ASK_LINK
\* are the text the admin sent without the white space at its two ends,
\* otherwise character for character, and confirm writes these strings as
\* resourceName and downloadUrl.
C30_NameAndLinkTrimmed ==
  [][ /\ ( cur'.op = "text" /\ StepOf(addCodeSessions, cur'.u) = <<"ASK_NAME">> )
         => Trimmed(cur'.text, addCodeSessions'[cur'.u].name)
      /\ ( cur'.op = "text" /\ StepOf(addCodeSessions, cur'.u) = <<"ASK_LINK">> )
         => Trimmed(cur'.text, addCodeSessions'[cur'.u].link)
      /\ CommitWritesSessionTexts ]_vars

C30_Witness ==
  /\ Len(dialog.events) = 5
  /\ dialog.events[3].text = " a b " /\ dialog.events[4].text = " 2 "
  /\ cur.op = "confirm_add" /\ cur.pc = "done" /\ cur.reply = "added"
  /\ access_codes # <<>>
  /\ access_codes[Len(access_codes)].resourceName = "a b"
  /\ access_codes[Len(access_codes)].downloadUrl = "2"

---------------------------------------------------------------------------
(* The access_codes collection and the session steps, under AdminSpec      *)

\* C31: every step keeps the access_codes documents already there, each with
\* the code, resourceName, downloadUrl and isUsed it has, and every document
\* a step adds has isUsed = false.
C31_AccessCodesOnlyGrow ==
  [][ /\ Len(access_codes') >= Len(access_codes)
      /\ \A i \in 1..Len(access_codes) : access_codes'[i] = access_codes[i]
      /\ \A i \in (Len(access_codes) + 1)..Len(access_codes') :
           access_codes'[i].isUsed = FALSE ]_vars

C31_Witness ==
  /\ cur.op = "confirm_add" /\ cur.pc = "done" /\ cur.reply = "added"
  /\ cur.batch # <<>>
  /\ Len(access_codes) > Len(cur.batch)
  /\ access_codes[1].isUsed = FALSE

\* The step after a in the dialog, for an accepted text.
NextStep(a) ==
  CASE a = <<"ASK_COUNT">> -> <<"ASK_NAME">>
    [] a = <<"ASK_NAME">> -> <<"ASK_LINK">>
    [] a = <<"ASK_LINK">> -> <<"PREVIEW">>
    [] OTHER -> a

\* C32: the step of a user's session changes only (a) by one place along
\* ASK_COUNT, ASK_NAME, ASK_LINK, PREVIEW, in the handler of a text of that
\* user that was accepted, (b) to ASK_COUNT by the user's /addcodes, (c) to
\* no session by the user's cancel or by the user's confirm after its
\* commit; every accepted text moves the step by one place; and a text
\* received in step PREVIEW, or from a user without a session, changes no
\* session and no collection.
C32_StepOrder ==
  [][ /\ \A u \in Users :
           LET a == StepOf(addCodeSessions, u)
               b == StepOf(addCodeSessions', u)
           IN a # b
              => \/ /\ cur'.op = "text" /\ cur'.u = u
                    /\ cur'.reply \in {"ask_name", "ask_link", "preview"}
                    /\ a # <<>> /\ b = NextStep(a)
                 \/ cur'.op = "addcodes" /\ cur'.u = u /\ b = <<"ASK_COUNT">>
                 \/ cur'.op = "cancel_add" /\ cur'.u = u /\ b = <<>>
                 \/ /\ cur.op = "confirm_add" /\ cur.u = u /\ cur.pc = "edit"
                    /\ cur'.reply = "added" /\ b = <<>>
      /\ ( cur'.op = "text" /\ cur'.reply \in {"ask_name", "ask_link", "preview"} )
         => /\ StepOf(addCodeSessions, cur'.u) \in
                 {<<"ASK_COUNT">>, <<"ASK_NAME">>, <<"ASK_LINK">>}
            /\ StepOf(addCodeSessions', cur'.u) = NextStep(StepOf(addCodeSessions, cur'.u))
      /\ ( cur'.op = "text"
           /\ StepOf(addCodeSessions, cur'.u) \in {<<>>, <<"PREVIEW">>} )
         => AllStoresUnchanged ]_vars

C32_Witness ==
  /\ cur.op = "text" /\ cur.u = ADMIN_ID /\ cur.reply = "none"
  /\ StepOf(addCodeSessions, ADMIN_ID) = <<"PREVIEW">>
  /\ addCodeSessions[ADMIN_ID].link # cur.text

---------------------------------------------------------------------------
(* What a user who is not the admin can do, under AllEventsSpec            *)

\* C33: no step of a handler whose sender is not the admin changes the Map
\* addCodeSessions or access_codes; the Map never has a key other than the
\* admin's id; and access_codes changes only at the commit of a confirm
\* whose sender is the admin.
C33_OnlyAdminWrites ==
  [][ /\ ( cur'.op # "none" /\ cur'.u # ADMIN_ID )
         => UNCHANGED <<addCodeSessions, access_codes>>
      /\ DOMAIN addCodeSessions' \subseteq {ADMIN_ID}
      /\ access_codes' # access_codes
         => /\ cur.op = "confirm_add" /\ cur.u = ADMIN_ID /\ cur.pc = "commit"
            /\ cur'.u = ADMIN_ID ]_vars

C33_Witness ==
  /\ cur.op = "confirm_add" /\ cur.u # ADMIN_ID /\ cur.pc = "done"
  /\ cur.reply = "session_expired"
  /\ StepOf(addCodeSessions, ADMIN_ID) = <<"PREVIEW">>
  /\ access_codes # <<>>
  /\ DocExists(otp_sessions, "s1")

---------------------------------------------------------------------------
(* The admin dialog with overlapping handlers, under AdminConcSpec         *)

\* C34: the end of a confirm handler removes the sender's session only when
\* that session is the one whose codes the handler committed (so not a
\* session /addcodes created while the commit was in flight); and the commit
\* of a confirm handler adds its codes only while the sender still has the
\* session the codes were taken from (so not after a cancel was answered
\* while the commit was in flight).
C34_ConfirmOwnsItsSession ==
  [][ \A s \in Slots :
        /\ ( /\ hs[s].op = "confirm_add" /\ hs[s].pc = "edit"
             /\ hs'[s].op = "confirm_add" /\ hs'[s].pc = "done"
             /\ MapHas(addCodeSessions, hs[s].u)
             /\ ~MapHas(addCodeSessions', hs[s].u) )
           => /\ addCodeSessions[hs[s].u].step = "PREVIEW"
              /\ BuildBatch(addCodeSessions[hs[s].u]) = hs[s].batch
        /\ ( /\ hs[s].op = "confirm_add" /\ hs[s].pc = "commit"
             /\ hs'[s].op = "confirm_add" /\ hs'[s].pc = "edit"
             /\ hs[s].batch # <<>> )
           => /\ MapHas(addCodeSessions, hs[s].u)
              /\ addCodeSessions[hs[s].u].step = "PREVIEW"
              /\ BuildBatch(addCodeSessions[hs[s].u]) = hs[s].batch ]_vars

=============================================================================
